---------------------------- MODULE Spec2Model ----------------------------
(***************************************************************************)
(* A model of nmt.py: the training loop of train() with its validation     *)
(* decision (checkpoint save, patience, trials, learning-rate decay,       *)
(* checkpoint reload, early stop, max-epoch stop), the batch padder        *)
(* sent_padding(), and the decoding driver decode().                       *)
(*                                                                         *)
(* Abstractions.  The parameters of the encoder and decoder are a single   *)
(* integer identifier: the randomly initialised parameters are 0, the      *)
(* parameters found in a checkpoint left by an earlier run are -1, and the *)
(* parameters produced by the k-th optimizer step of this run are k.  The  *)
(* validation metric -dev_ppl is an integer number of tenths.  The         *)
(* reporting counters (cum_loss, report_loss, ...) never influence control *)
(* flow and are left out.                                                  *)
(***************************************************************************)
EXTENDS Integers, Sequences, FiniteSets, TLC

\* ------------------------------------------------------------------ bounds
MaxValid       == 4     \* validations performed in one run of the model
MaxPatienceArg == 2     \* largest --patience
MaxTrialArg    == 2     \* largest --max-num-trial
MaxEpochArg    == 2     \* largest --max-epoch
MaxValidNiter  == 2     \* largest --valid-niter
MaxBatches     == 2     \* largest number of mini-batches per epoch
MaxTest        == 2     \* largest number of test sentences given to decode
MaxDevBatches  == 2     \* largest number of batches of the dev set
MaxBatchSize   == 2     \* largest batch given to sent_padding
MaxSrcLen      == 3     \* longest source sentence given to sent_padding
MaxTgtBody     == 2     \* longest target sentence body (between <s> and </s>)

\* validation metrics (-dev_ppl) in tenths: -2.0, -1.9, -1.8, -1.5
Metrics == {-20, -19, -18, -15}

VARIABLES
    mode,               \* args['train'] / args['decode']
    pc,                 \* position of the process
    args,               \* the numeric options read by train()
    num_batches,        \* mini-batches batch_iter yields per epoch
    epoch, batch_idx, train_iter, valid_num,
    patience, num_trial,
    hist_valid_scores,  \* Validation History
    params,             \* encoder+decoder parameters in memory
    training,           \* encoder/decoder in training mode (not eval())
    opt_steps,          \* optimizer state: optimizer.step() calls applied
    ckpt,               \* files model-encoder/model-decoder: <<>> or <<params>>
    last_epoch,         \* model.scheduler.last_epoch: number of scheduler.step()
    num_save,           \* calls of model.save(model_save_path)
    num_load,           \* calls of model.load(model_save_path) in the loop
    valid_params,       \* the parameters each validation evaluated
    stderr,             \* messages the latest validation printed
    test_data_src,      \* decode: the source sentences read
    out_lines,          \* decode: lines written to OUTPUT_FILE
    src_sents, tgt_sents, \* sent_padding: its arguments
    ret                 \* sent_padding: what the call produced

trainVars == <<args, num_batches, epoch, batch_idx, train_iter, valid_num,
               patience, num_trial, hist_valid_scores, params, training, ckpt,
               last_epoch, num_save, num_load, valid_params, stderr,
               opt_steps>>
decodeVars == <<test_data_src, out_lines>>
padVars == <<src_sents, tgt_sents, ret>>
vars == <<mode, pc, trainVars, decodeVars, padVars>>

\* ------------------------------------------------------------- helpers
Max(S) == CHOOSE x \in S : \A y \in S : x >= y

Range(s) == {s[i] : i \in DOMAIN s}

\* ------------------------------------------------- the validation decision
\* line 490
IsBetterOrEqual(hist, valid_metric) ==
    Len(hist) = 0 \/ valid_metric >= Max(Range(hist))

IsBetterNotFirst(hist, valid_metric) ==
    Len(hist) > 0 /\ valid_metric > Max(Range(hist))

IsBetter(hist, valid_metric) ==
    Len(hist) = 0 \/ valid_metric > Max(Range(hist))

\* line 499: elif patience < int(args['--patience'])
PatienceLeft(p, limit) == p < limit

\* line 503: if patience == int(args['--patience'])
HitPatienceAlways(p, limit) == TRUE

HitPatience(p, limit) == p = limit

\* line 506: if num_trial == int(args['--max-num-trial'])
TrialsExhausted(t, max_num_trial) == t = max_num_trial

\* line 523: if epoch == int(args['--max-epoch'])
ReachedMaxEpochAfter(e, max_epoch) == e > max_epoch

ReachedMaxEpoch(e, max_epoch) == e = max_epoch

\* lines 328-333: NMT.save writes the state dicts of encoder and decoder
Save(p) == <<p>>

\* lines 321-324: NMT.load replaces the state dicts by those of the files
LoadKeepsCurrent(cur, file) == cur

LoadStateDict(cur, file) == file[1]

\* line 82, 511: StepLR(step_size=1, gamma=0.5); each step() halves the rate,
\* lr = 0.0001 * 0.5 ^ last_epoch
SchedulerStep(e) == e + 1

\* line 161: one optimizer step yields parameters never seen before
OptimizerStep(iter) == iter

\* lines 167-192: NMT.decode_without_bp on the model state <<parameters,
\* optimizer steps>>: the forward pass and the loss, no backward pass and no
\* optimizer step
DecodeWithBp(m) == <<m[1] + 1, m[2] + 1>>

DecodeWithoutBp(m) == m

\* lines 278-318: NMT.evaluate_ppl runs decode_without_bp on each of the n
\* batches of the dev set, under torch.no_grad()
RECURSIVE EvaluatePpl(_, _)
EvaluatePpl(m, n) ==
    IF n = 0 THEN m ELSE EvaluatePpl(DecodeWithoutBp(m), n - 1)

\* ------------------------------------------------------------ sent_padding
\* source token ids (0 pad, 1 <s>, 2 </s>, 3 unk are reserved)
SrcTok == 4 .. (3 + MaxSrcLen)

\* the sentence of n consecutive token ids that starts with id first
Run(first, n) == [k \in 1 .. n |-> first + k - 1]

\* source sentences as words2indices yields them (line 110): runs of ids
SrcSentences ==
    {Run(f, n) : f \in SrcTok, n \in 0 .. MaxSrcLen} \cap Seq(SrcTok)

\* target sentence bodies as words2indices yields them (line 111)
TgtBodies == {Run(7, n) : n \in 0 .. MaxTgtBody}

\* read_corpus(..., source='tgt') wraps a target sentence by <s> and </s>
WrappedTargets == {<<1>> \o b \o <<2>> : b \in TgtBodies}

\* target sentences that lack a sentinel
DegenerateTargets == {<<>>, <<1>>}

TgtSentences == WrappedTargets \cup DegenerateTargets

\* line 359: sent[1][:-1]
YInput(sent) == IF Len(sent) = 0 THEN <<>> ELSE SubSeq(sent, 1, Len(sent) - 1)

\* line 360: sent[1][1:]
YTargetWhole(sent) == sent

YTarget(sent) == IF Len(sent) = 0 THEN <<>> ELSE SubSeq(sent, 2, Len(sent))

\* lines 350-352, 365-367: a row of zeros whose first len(row) entries are row
PadRow(row, width) ==
    [k \in 1 .. width |-> IF k <= Len(row) THEN row[k] ELSE 0]

\* line 347
MaxSentLen(sents) == Max({Len(sents[i]) : i \in DOMAIN sents})

\* line 348: the width of both decoder matrices
MaxTgtLenShifted(tgts) == Max({Len(YInput(tgts[i])) : i \in DOMAIN tgts})

MaxTgtLen(tgts) == MaxSentLen(tgts)

NoResult == [status |-> "none", src |-> <<>>, src_lens |-> <<>>,
             y_input |-> <<>>, y_target |-> <<>>, tgt_lens |-> <<>>]

\* lines 344-373; max() of an empty list raises ValueError
SentPadding(srcs, tgts) ==
    IF Len(srcs) = 0 \/ Len(tgts) = 0
    THEN [NoResult EXCEPT !.status = "ValueError"]
    ELSE LET max_src_len == MaxSentLen(srcs)
             max_tgt_len == MaxTgtLen(tgts)
             batch == DOMAIN srcs
         IN [status   |-> "ok",
             src      |-> [i \in batch |-> PadRow(srcs[i], max_src_len)],
             src_lens |-> [i \in batch |-> Len(srcs[i])],
             y_input  |-> [i \in batch |-> PadRow(YInput(tgts[i]), max_tgt_len)],
             y_target |-> [i \in batch |-> PadRow(YTarget(tgts[i]), max_tgt_len)],
             tgt_lens |-> [i \in batch |-> Len(YInput(tgts[i]))]]

\* ------------------------------------------------------------------- Init
TrainIdle ==
    /\ epoch = 0 /\ batch_idx = 0 /\ train_iter = 0 /\ valid_num = 0
    /\ patience = 0 /\ num_trial = 0
    /\ hist_valid_scores = <<>>
    /\ params = 0
    /\ training = TRUE
    /\ opt_steps = 0
    /\ last_epoch = 0
    /\ num_save = 0 /\ num_load = 0
    /\ valid_params = <<>>
    /\ stderr = <<>>

DecodeIdle == test_data_src = <<>> /\ out_lines = <<>>

PadIdle == src_sents = <<>> /\ tgt_sents = <<>> /\ ret = NoResult

ArgSets == [patience      : 0 .. MaxPatienceArg,
            max_num_trial : 0 .. MaxTrialArg,
            max_epoch     : 0 .. MaxEpochArg,
            valid_niter   : 1 .. MaxValidNiter]

DefaultArgs == [patience |-> 0, max_num_trial |-> 0, max_epoch |-> 0,
                valid_niter |-> 1]

\* lines 400-428: the options and data train() reads; the files 'model-*' an
\* earlier run may have left
InitTrain ==
    /\ mode = "train"
    /\ args \in ArgSets
    /\ num_batches \in 1 .. MaxBatches
    /\ ckpt \in {<<>>, <<-1>>}
    /\ DecodeIdle

\* lines 547-549: the test sentences decode() reads
InitDecode ==
    /\ mode = "decode"
    /\ args = DefaultArgs
    /\ num_batches = 1
    /\ ckpt = <<-1>>
    /\ out_lines = <<>>
    /\ test_data_src \in UNION {[1 .. n -> SrcSentences] : n \in 0 .. MaxTest}

\* lines 570-581: main() in one of its two modes
Init ==
    /\ pc = "main"
    /\ InitTrain \/ InitDecode
    /\ TrainIdle
    /\ PadIdle

\* ---------------------------------------------------------------- actions
\* lines 578-581
Main ==
    /\ pc = "main"
    /\ pc' = IF mode = "train" THEN "construct" ELSE "decode"
    /\ UNCHANGED <<mode, trainVars, decodeVars, padVars>>

\* lines 420-423, 78-79: NMT(..., keep_train=True) loads the files 'model-*'
ConstructLoad ==
    /\ pc = "construct"
    /\ ckpt # <<>>
    /\ params' = LoadStateDict(params, ckpt)
    /\ training' = FALSE
    /\ pc' = "while"
    /\ UNCHANGED <<mode, args, num_batches, epoch, batch_idx, train_iter,
                   valid_num, patience, num_trial, hist_valid_scores, ckpt,
                   last_epoch, num_save, num_load, valid_params, stderr,
                   opt_steps, decodeVars, padVars>>

\* line 323: torch.load of a missing file raises
ConstructFail ==
    /\ pc = "construct"
    /\ ckpt = <<>>
    /\ pc' = "crash"
    /\ UNCHANGED <<mode, trainVars, decodeVars, padVars>>

\* lines 434-435
EpochBegin ==
    /\ pc = "while"
    /\ epoch' = epoch + 1
    /\ batch_idx' = 0
    /\ pc' = "for"
    /\ UNCHANGED <<mode, args, num_batches, train_iter, valid_num, patience,
                   num_trial, hist_valid_scores, params, training, ckpt,
                   last_epoch, num_save, num_load, valid_params, stderr,
                   opt_steps, decodeVars, padVars>>

\* line 437: batch_iter is exhausted
EpochEnd ==
    /\ pc = "for"
    /\ batch_idx = num_batches
    /\ pc' = "while"
    /\ UNCHANGED <<mode, trainVars, decodeVars, padVars>>

\* lines 437-464, 473: one mini-batch: model(src_sents, tgt_sents) scores the
\* batch and applies one optimizer step (lines 157-161)
TrainStep ==
    /\ pc = "for"
    /\ batch_idx < num_batches
    /\ valid_num < MaxValid
    /\ batch_idx' = batch_idx + 1
    /\ train_iter' = train_iter + 1
    /\ params' = OptimizerStep(train_iter')
    /\ opt_steps' = opt_steps + 1
    /\ pc' = IF train_iter' % args.valid_niter = 0 THEN "eval" ELSE "for"
    /\ UNCHANGED <<mode, args, num_batches, epoch, valid_num, patience,
                   num_trial, hist_valid_scores, training, ckpt, last_epoch,
                   num_save, num_load, valid_params, stderr, decodeVars,
                   padVars>>

\* lines 473-485: the validation run: model.evaluate_ppl over the dev set
Evaluate ==
    /\ pc = "eval"
    /\ \E n \in 1 .. MaxDevBatches :
          LET m == EvaluatePpl(<<params, opt_steps>>, n)
          IN params' = m[1] /\ opt_steps' = m[2]
    /\ pc' = "valid"
    /\ UNCHANGED <<mode, args, num_batches, epoch, batch_idx, train_iter,
                   valid_num, patience, num_trial, hist_valid_scores,
                   training, ckpt, last_epoch, num_save, num_load,
                   valid_params, stderr, decodeVars, padVars>>

\* lines 486-525: one validation event; valid_metric is -dev_ppl as
\* evaluate_ppl returned it
Validate(valid_metric) ==
    /\ pc = "valid"
    /\ LET is_better == IsBetter(hist_valid_scores, valid_metric)
           hit == ~is_better /\ PatienceLeft(patience, args.patience)
           patience1 == IF is_better THEN 0
                        ELSE IF hit THEN patience + 1 ELSE patience
           trial == hit /\ HitPatience(patience1, args.patience)
           num_trial1 == IF trial THEN num_trial + 1 ELSE num_trial
           early == trial /\ TrialsExhausted(num_trial1, args.max_num_trial)
           decay == trial /\ ~early
           maxep == ~early /\ ReachedMaxEpoch(epoch, args.max_epoch)
           ckpt1 == IF is_better THEN Save(params) ELSE ckpt
       IN /\ valid_num' = valid_num + 1
          /\ hist_valid_scores' = Append(hist_valid_scores, valid_metric)
          /\ valid_params' = Append(valid_params, params)
          /\ ckpt' = ckpt1
          /\ num_save' = IF is_better THEN num_save + 1 ELSE num_save
          /\ num_trial' = num_trial1
          /\ patience' = IF decay THEN 0 ELSE patience1
          /\ last_epoch' = IF decay THEN SchedulerStep(last_epoch) ELSE last_epoch
          /\ params' = IF decay THEN LoadStateDict(params, ckpt1) ELSE params
          /\ training' = IF decay THEN FALSE ELSE training
          /\ num_load' = IF decay THEN num_load + 1 ELSE num_load
          /\ stderr' = (IF is_better THEN <<"save">> ELSE <<>>)
                       \o (IF hit THEN <<"hit patience">> ELSE <<>>)
                       \o (IF trial THEN <<"hit trial">> ELSE <<>>)
                       \o (IF early THEN <<"early stop">> ELSE <<>>)
                       \o (IF decay THEN <<"decay", "restore">> ELSE <<>>)
                       \o (IF maxep THEN <<"max epoch">> ELSE <<>>)
          /\ pc' = IF early \/ maxep THEN "exit0" ELSE "for"
    /\ UNCHANGED <<mode, args, num_batches, epoch, batch_idx, train_iter,
                   opt_steps, decodeVars, padVars>>

\* lines 547-552: decode() reads the corpus and calls NMT.load(path) on the
\* class; load(self, model_path) is an instance method, so the call raises
\* TypeError before any hypothesis is produced or OUTPUT_FILE is opened
Decode ==
    /\ pc = "decode"
    /\ pc' = "crash"
    /\ UNCHANGED <<mode, trainVars, decodeVars, padVars>>

Next ==
    \/ Main
    \/ ConstructLoad
    \/ ConstructFail
    \/ EpochBegin
    \/ EpochEnd
    \/ TrainStep
    \/ Evaluate
    \/ \E m \in Metrics : Validate(m)
    \/ Decode

Spec == Init /\ [][Next]_vars

\* ------------------------------------------- sent_padding on its own
PadInit ==
    /\ pc = "call"
    /\ mode = "pad"
    /\ args = DefaultArgs
    /\ num_batches = 1
    /\ ckpt = <<>>
    /\ TrainIdle
    /\ DecodeIdle
    /\ ret = NoResult
    /\ \E n \in 0 .. MaxBatchSize :
          /\ src_sents \in [1 .. n -> SrcSentences]
          /\ tgt_sents \in [1 .. n -> TgtSentences]

\* lines 344-373: the call returns the five results
PadReturn ==
    /\ pc = "call"
    /\ SentPadding(src_sents, tgt_sents).status = "ok"
    /\ ret' = SentPadding(src_sents, tgt_sents)
    /\ pc' = "returned"
    /\ UNCHANGED <<mode, trainVars, decodeVars, src_sents, tgt_sents>>

\* line 347: the call raises
PadRaise ==
    /\ pc = "call"
    /\ SentPadding(src_sents, tgt_sents).status # "ok"
    /\ ret' = SentPadding(src_sents, tgt_sents)
    /\ pc' = "raised"
    /\ UNCHANGED <<mode, trainVars, decodeVars, src_sents, tgt_sents>>

PadNext == PadReturn \/ PadRaise

PadSpec == PadInit /\ [][PadNext]_vars

\* ------------------------------------------------- properties: train
\* a step that is one validation event
ValidEvent == valid_num' = valid_num + 1

\* the metric the validation event appended
NewMetric == hist_valid_scores'[Len(hist_valid_scores')]

\* the new metric strictly exceeds every metric appended before it (true of
\* the very first validation)
StrictlyExceeds == \A i \in DOMAIN hist_valid_scores : NewMetric > hist_valid_scores[i]

\* C1: at every validation event a checkpoint is saved (model.save is called
\* and the files hold the current parameters) if and only if the new metric
\* strictly exceeds the maximum of the metrics appended before, the first
\* validation counting as an improvement; otherwise nothing is saved.
C1_SaveIffImproved ==
    [][ValidEvent =>
          /\ (num_save' = num_save + 1) <=> StrictlyExceeds
          /\ StrictlyExceeds => ckpt' = <<params>>
          /\ ~StrictlyExceeds => (num_save' = num_save /\ ckpt' = ckpt)]_vars

C1_Witness ==
    /\ Len(hist_valid_scores) >= 3
    /\ hist_valid_scores[2] > hist_valid_scores[1]
    /\ hist_valid_scores[3] = hist_valid_scores[2]
    /\ num_save = 2
    /\ stderr = <<"hit patience">>

\* C2: in every reachable state the number of learning-rate decays and the
\* trial counter are at most max-trials, and the patience counter is at most
\* the patience limit.
C2_Bounded ==
    /\ last_epoch <= args.max_num_trial
    /\ num_trial <= args.max_num_trial
    /\ patience <= args.patience

\* C3 as stated: at a non-improving validation with the patience counter
\* below the limit only the patience counter changes (by one), and a trial
\* happens only at a non-improving validation that starts with the patience
\* counter equal to the limit.
C3_TrialAtLimit ==
    [][/\ (ValidEvent /\ ~StrictlyExceeds /\ patience < args.patience) =>
              /\ patience' = patience + 1
              /\ num_trial' = num_trial
              /\ last_epoch' = last_epoch
              /\ params' = params
       /\ num_trial' # num_trial =>
              (ValidEvent /\ ~StrictlyExceeds /\ patience = args.patience)]_vars

\* C3 amended: at a non-improving validation whose increment leaves the
\* patience counter below the limit only the patience counter changes (by
\* one); a trial happens only at a non-improving validation that starts with
\* the patience counter one below the limit.
C3_TrialWhenLimitReached ==
    [][/\ (ValidEvent /\ ~StrictlyExceeds /\ patience + 1 < args.patience) =>
              /\ patience' = patience + 1
              /\ num_trial' = num_trial
              /\ last_epoch' = last_epoch
              /\ params' = params
              /\ num_load' = num_load
       /\ num_trial' # num_trial =>
              /\ ValidEvent /\ ~StrictlyExceeds
              /\ patience + 1 = args.patience
              /\ num_trial' = num_trial + 1]_vars

C3_Witness ==
    /\ args.patience = 2
    /\ num_trial = 1
    /\ stderr = <<"hit patience", "hit trial", "decay", "restore">>

Scenario == <<-20, -15, -18, -19>>

\* C4: on the metrics -2.0, -1.5, -1.8, -1.9 with patience limit 2 and
\* max-trials above 1 there is no decay and no reload after the 3rd
\* validation, and exactly one decay and one reload after the 4th.
C4_ScenarioOneDecay ==
    (mode = "train" /\ args.patience = 2 /\ args.max_num_trial > 1) =>
        /\ hist_valid_scores = SubSeq(Scenario, 1, 3) =>
              (last_epoch = 0 /\ num_load = 0 /\ num_trial = 0 /\ patience = 1)
        /\ hist_valid_scores = Scenario =>
              (last_epoch = 1 /\ num_load = 1 /\ num_trial = 1)

C4_Witness ==
    /\ args.patience = 2 /\ args.max_num_trial = 2
    /\ hist_valid_scores = Scenario
    /\ last_epoch = 1 /\ num_load = 1

\* the most recent strictly improving validation of a history
LastImproving(h) ==
    Max({i \in DOMAIN h : \A j \in 1 .. (i - 1) : h[i] > h[j]})

\* C5: when a trial is triggered and the trial counter has not reached
\* max-trials, the learning rate is decayed once, the parameters become those
\* evaluated at the most recent strictly improving validation and the
\* patience counter is reset to 0; when the trial counter reaches max-trials
\* the loop stops without decay or reload.
C5_DecayAndRollback ==
    [][num_trial' = num_trial + 1 =>
          IF num_trial' = args.max_num_trial
          THEN /\ pc' = "exit0"
               /\ last_epoch' = last_epoch
               /\ num_load' = num_load
               /\ params' = params
          ELSE /\ last_epoch' = last_epoch + 1
               /\ num_load' = num_load + 1
               /\ params' = valid_params'[LastImproving(hist_valid_scores')]
               /\ patience' = 0]_vars

C5_Witness ==
    /\ "restore" \in Range(stderr)
    /\ LastImproving(hist_valid_scores) = 2
    /\ params = valid_params[2]
    /\ params # valid_params[Len(valid_params)]
    /\ patience = 0 /\ last_epoch = 1

\* C6: after a validation event with the epoch counter equal to max-epoch
\* the loop has stopped with exit code 0, whatever the outcome of the
\* validation.
C6_StopAtMaxEpoch ==
    [][(ValidEvent /\ epoch = args.max_epoch) => pc' = "exit0"]_vars

C6_Witness ==
    /\ pc = "exit0"
    /\ epoch = args.max_epoch
    /\ stderr = <<"hit patience", "hit trial", "decay", "restore", "max epoch">>

\* ---------------------------------------------- properties: sent_padding
Width(matrix) == Len(matrix[1])

ScenarioSrc == <<<<4, 5>>, <<4, 5, 6>>>>
ScenarioTgt == <<<<1, 7, 2>>, <<1, 7, 8, 2>>>>

ScenarioPadded ==
    pc = "returned" /\ src_sents = ScenarioSrc /\ tgt_sents = ScenarioTgt

\* C7 as stated: the scenario batch yields a source matrix of width 3 and
\* decoder matrices of width 2 whose rows start with [1,7], [1,7,8] and
\* [7,2], [7,8,2]: no wider than the longest shifted target sequence.
C7_ScenarioWidthTwo ==
    ScenarioPadded =>
        /\ Width(ret.src) = 3
        /\ Width(ret.y_input) = 2 /\ Width(ret.y_target) = 2
        /\ \A i \in 1 .. 2 :
              /\ SubSeq(ret.y_input[i], 1, ret.tgt_lens[i])
                     = <<<<1, 7>>, <<1, 7, 8>>>>[i]
              /\ SubSeq(ret.y_target[i], 1, ret.tgt_lens[i])
                     = <<<<7, 2>>, <<7, 8, 2>>>>[i]

\* C7 amended: the scenario batch yields a source matrix of width 3 and
\* decoder matrices of width 4, the length of the longest unshifted target,
\* holding [[1,7,0,0],[1,7,8,0]] and [[7,2,0,0],[7,8,2,0]], with target
\* lengths [2,3].
C7_ScenarioWidthFour ==
    ScenarioPadded =>
        /\ ret.src = <<<<4, 5, 0>>, <<4, 5, 6>>>>
        /\ ret.src_lens = <<2, 3>>
        /\ ret.y_input = <<<<1, 7, 0, 0>>, <<1, 7, 8, 0>>>>
        /\ ret.y_target = <<<<7, 2, 0, 0>>, <<7, 8, 2, 0>>>>
        /\ ret.tgt_lens = <<2, 3>>

C7_Witness == ScenarioPadded /\ Width(ret.y_input) = 4

\* every target sentence is wrapped by <s> and </s> (line 103)
TargetsWrapped == \A i \in DOMAIN tgt_sents : Len(tgt_sents[i]) >= 2

\* C8: for every non-empty batch of sentence pairs (targets wrapped by their
\* sentinels) and every example i: tgt_len[i] = len(target[i]) - 1, the first
\* tgt_len[i] entries of decoder_input[i] are target[i] without its last
\* token, those of decoder_target[i] are target[i] without its first token,
\* the source matrix is max(source lengths) wide and is zero beyond each
\* row's true length.
C8_PaddingCorrect ==
    (pc = "returned" /\ TargetsWrapped) =>
        /\ DOMAIN ret.src = DOMAIN src_sents
        /\ \A i \in DOMAIN src_sents :
              LET n == Len(tgt_sents[i]) - 1 IN
              /\ ret.tgt_lens[i] = n
              /\ ret.src_lens[i] = Len(src_sents[i])
              /\ SubSeq(ret.y_input[i], 1, n) = [k \in 1 .. n |-> tgt_sents[i][k]]
              /\ SubSeq(ret.y_target[i], 1, n) = [k \in 1 .. n |-> tgt_sents[i][k + 1]]
              /\ Len(ret.src[i]) = Max({Len(src_sents[j]) : j \in DOMAIN src_sents})
              /\ \A k \in DOMAIN ret.src[i] :
                    ret.src[i][k] = IF k <= Len(src_sents[i])
                                    THEN src_sents[i][k] ELSE 0

C8_Witness ==
    /\ pc = "returned" /\ TargetsWrapped
    /\ Len(src_sents) = 2
    /\ Len(src_sents[1]) < Len(src_sents[2])
    /\ Len(tgt_sents[1]) > Len(tgt_sents[2])
    /\ ret.src[1][Len(ret.src[1])] = 0

\* zero sentences, an empty source sentence or a target of fewer than two
\* tokens
DegenerateInput ==
    \/ Len(src_sents) = 0
    \/ \E i \in DOMAIN src_sents : Len(src_sents[i]) = 0 \/ Len(tgt_sents[i]) < 2

\* C9: sent_padding never returns matrices for zero sentences, an empty
\* source sentence or a target sentence of fewer than two tokens: the call
\* fails with an error.
C9_DegenerateRaises ==
    (pc \in {"returned", "raised"} /\ DegenerateInput) => pc = "raised"

\* ---------------------------------------------------- properties: decode
\* C10: when decode ends it has written exactly one line per input sentence
\* (the top hypothesis of that sentence, in input order) and ended normally.
C10_OneLinePerSentence ==
    (mode = "decode" /\ pc \in {"exit0", "crash"}) =>
        (pc = "exit0" /\ Len(out_lines) = Len(test_data_src))

\* ------------------------------------- properties: validation run, epochs
\* C11: the validation run (evaluate_ppl over the dev set) leaves the
\* parameters, the optimizer state and the learning-rate schedule unchanged,
\* so the parameters after it are those of the most recently completed
\* training step (the train_iter-th optimizer step); the optimizer is stepped
\* only by the training step, once per scoring call.
C11_ValidationReadOnly ==
    [][/\ pc = "eval" =>
              /\ params' = params
              /\ opt_steps' = opt_steps
              /\ last_epoch' = last_epoch
              /\ ckpt' = ckpt
              /\ params' = train_iter /\ opt_steps' = train_iter
       /\ opt_steps' # opt_steps =>
              (train_iter' = train_iter + 1 /\ opt_steps' = opt_steps + 1)]_vars

C11_Witness ==
    /\ pc = "valid"
    /\ num_load = 1
    /\ valid_num = 2
    /\ params = train_iter /\ opt_steps = train_iter
    /\ params # valid_params[1]

\* C12: in every reachable state of the training loop the epoch counter is
\* at most the max-epoch limit (stated for limits of at least one epoch).
C12_EpochBounded ==
    (mode = "train" /\ args.max_epoch >= 1) => epoch <= args.max_epoch

\* C13: a checkpoint reload in the loop is always preceded by a checkpoint
\* save of the same run: when the rollback loads the files, a save has been
\* made and the files hold parameters this run saved at a validation.
C13_ReloadAfterSave ==
    [][num_load' # num_load =>
          /\ num_save >= 1
          /\ ckpt # <<>>
          /\ \E i \in DOMAIN valid_params : ckpt = <<valid_params[i]>>
          /\ params' = ckpt[1]]_vars

C13_Witness ==
    /\ num_load = 1 /\ num_save = 1
    /\ valid_num = 2
    /\ params = valid_params[1]

=============================================================================
